---- MODULE Spec2Model ----
(***************************************************************************)
(* Model of the rairplay media-transport core:                             *)
(*   - rairplay/src/streaming/processing.rs : the packet processors        *)
(*     (event, control, realtime audio, buffered audio, video);            *)
(*   - airplay/src/rtsp/dto.rs : the SETUP / TEARDOWN negotiation records. *)
(* One behaviour of Spec is one run of one processor on one socket; one    *)
(* behaviour of SpecSession is such a run with the sink releasing packets  *)
(* and the session layer aborting the processor; one behaviour of SpecDto  *)
(* is one decode or encode call on one input.                              *)
(***************************************************************************)
EXTENDS Integers, Sequences, FiniteSets, TLC

VARIABLES
    proc,           \* which processor this run is
    pc,             \* the await the processor is suspended at, or "done"
    result,         \* "running", or how the processor's future completed
    wire,           \* TCP: the bytes the peer sends, in order
    pos,            \* TCP: bytes consumed so far / UDP: datagrams received
    socket,         \* UDP: the datagrams that arrive, in order
    listener,       \* event: byte count carried by each incoming connection
    conn_left,      \* event: unread bytes of the accepted connection
    pkt_len,        \* audio: local pkt_len
    rtp,            \* audio: local rtp buffer
    tag,            \* buffered audio: local tag
    nonce,          \* buffered audio: local nonce
    aad,            \* buffered audio: local aad
    payload_len,    \* video: local payload_len
    kind,           \* video: local kind
    unknown_field,  \* video: local unknown_field
    timestamp,      \* video: local timestamp
    payload,        \* video: pkt.payload
    cipher,         \* video: state of the (mutable) VideoCipher
    sink,           \* packets handed to stream.on_data, in call order
    allocs,         \* lengths passed to allocate_buf, in call order
    cipher_calls,   \* arguments of every cipher invocation, in call order
    frames,         \* history: for every frame, datagram or connection taken in
                    \* hand so far, the value of pos when it was begun
    io_failed,      \* history: some read or accept has failed
    hunk,           \* buffer pool: the BytesHunk of this processor
    arena,          \* buffer pool: the bytes of its backing storage
    heap,           \* buffer pool: the bytes of slices allocated apart from it
    slices,         \* buffer pool: every slice issued so far, with its holder
    cur,            \* the slice the processor's local rtp / pkt.payload is, or 0
    dto_op,         \* negotiation: the last operation applied
    dto_in,         \* negotiation: its input
    dto_out         \* negotiation: its result

poolVars == <<hunk, arena, heap, slices, cur>>
procVars == <<proc, pc, result, wire, pos, socket, listener, conn_left,
              pkt_len, rtp, tag, nonce, aad, payload_len, kind, unknown_field,
              timestamp, payload, cipher, sink, allocs, cipher_calls, frames,
              io_failed, poolVars>>
dtoVars == <<dto_op, dto_in, dto_out>>
vars == <<procVars, poolVars, dtoVars>>

\* arrival index of the frame, datagram or connection in hand
frame == Len(frames)

----------------------------------------------------------------------------
(* Bounds of the model *)

\* frames on a TCP stream, datagrams on a UDP socket, connections on a listener
MaxFrames == 3

----------------------------------------------------------------------------
(* Program constants *)

TRAILER_LEN == 24
PKT_BUF_SIZE == 16384
BUF_SIZE == 16384
UNKNOWN_BYTES == 112
AudioPacket_HEADER_LEN == 12
AudioPacket_TRAILER_LEN == 24
TAG_LEN == 16
NONCE_LEN == 12
AAD_LEN == 8

----------------------------------------------------------------------------
(* Bytes and integers on the wire *)

Min(a, b) == IF a < b THEN a ELSE b

Zeros(n) == [i \in 1..n |-> 0]

RECURSIVE SumSeq(_)
SumSeq(s) == IF s = <<>> THEN 0 ELSE s[1] + SumSeq(Tail(s))

\* big-endian u16, as tokio's read_u16 decodes it
U16BE(b) == b[1] * 256 + b[2]

\* little-endian integers, as read_u16_le / read_u32_le / read_u64_le decode them
RECURSIVE UIntLE(_)
UIntLE(b) == IF b = <<>> THEN 0 ELSE b[1] + 256 * UIntLE(Tail(b))

\* the inverse encodings, used to build the peer's byte stream
ToBE16(n) == <<(n \div 256) % 256, n % 256>>

RECURSIVE ToLE(_, _)
ToLE(n, width) == IF width = 0 THEN <<>> ELSE <<n % 256>> \o ToLE(n \div 256, width - 1)

\* the length field taken not to count itself
SaturatingSub_Forgotten(a, b) == a

\* u16::saturating_sub
SaturatingSub(a, b) == IF a < b THEN 0 ELSE a - b

----------------------------------------------------------------------------
(* Cipher contract (crypto::streaming).  Each cipher is a keyed byte-wise      *)
(* shift, so that decryption is never the identity; the authenticated one    *)
(* accepts exactly the tag computed from nonce, aad and ciphertext.           *)

Shift(buf, ks) == [i \in 1..Len(buf) |-> (buf[i] + 256 - ((ks + i) % 256)) % 256]
Unshift(buf, ks) == [i \in 1..Len(buf) |-> (buf[i] + ((ks + i) % 256)) % 256]

\* the tag AudioBufferedCipher accepts for (nonce, aad, ciphertext)
BufferedTag(n, a, ct) ==
    [i \in 1..TAG_LEN |-> (SumSeq(n) + 3 * SumSeq(a) + 7 * SumSeq(ct) + i) % 256]

\* AudioBufferedCipher::open_in_place(nonce, aad, tag, buf) -> Result<(), _>
open_in_place(n, a, t, buf) ==
    IF t = BufferedTag(n, a, buf)
    THEN [ok |-> TRUE, buf |-> Shift(buf, SumSeq(n))]
    ELSE [ok |-> FALSE, buf |-> buf]

\* AudioRealtimeCipher::decrypt(&self, buf): stateless
realtime_decrypt(buf) == Shift(buf, 0)

\* VideoCipher::decrypt(&mut self, buf): the key stream advances with every call
video_decrypt(state, buf) ==
    [state |-> state + Len(buf), buf |-> Shift(buf, state)]

----------------------------------------------------------------------------
(* util::memory::BytesHunk and the sinks *)

\* BytesHunk::new(size): a backing storage of size bytes, its write cursor at 0
BytesHunk_new(size) == [capacity |-> size, cursor |-> 0]

\* BytesHunk::allocate_buf(len): a slice of exactly len bytes
allocate_buf(len) == Zeros(len)

\* two ranges of the backing storage have a byte in common
Overlaps(a, b) ==
    a.len > 0 /\ b.len > 0 /\ a.off < b.off + b.len /\ b.off < a.off + a.len

\* the slices of the backing storage that a holder still references
Live(ss) == {i \in 1..Len(ss) : ss[i].region = 0 /\ ss[i].holder # "released"}

\* the ring reused with no regard to the slices still referenced
Fits_Unchecked(h, ss, off, len) == off + len <= h.capacity

\* the range [off, off + len) lies in the backing storage and overlaps no
\* slice still referenced
Fits(h, ss, off, len) ==
    /\ off + len <= h.capacity
    /\ \A i \in Live(ss) : ~Overlaps([off |-> off, len |-> len], ss[i])

\* where allocate_buf(len) places the slice: at the write cursor, or at the
\* start of the ring when the rest of it is too short; and when that range is
\* not free, in an allocation of its own (region k > 0), the call being neither
\* fallible nor a suspension point
Place(h, ss, len) ==
    LET at == IF h.cursor + len <= h.capacity THEN h.cursor ELSE 0
    IN  IF Fits(h, ss, at, len)
        THEN [region |-> 0, off |-> at, len |-> len]
        ELSE [region |-> Cardinality({i \in 1..Len(ss) : ss[i].region # 0}) + 1,
              off |-> 0, len |-> len]

\* the write cursor after the slice was placed
Advance(h, pl) == IF pl.region = 0 THEN [h EXCEPT !.cursor = pl.off + pl.len] ELSE h

\* the slice issued for the frame src, in the hands of `holder`
Issue(ss, pl, src, holder) ==
    Append(ss, [region |-> pl.region, off |-> pl.off, len |-> pl.len,
                src |-> src, holder |-> holder])

\* the bytes seen through a slice, and the storage after a write through it
ReadSlice(a, hp, s) ==
    IF s.region = 0 THEN SubSeq(a, s.off + 1, s.off + s.len) ELSE hp[s.region]

WriteArena(a, s, bytes) ==
    IF s.region # 0 THEN a
    ELSE [i \in 1..Len(a) |->
            IF i > s.off /\ i <= s.off + s.len THEN bytes[i - s.off] ELSE a[i]]

WriteHeap(hp, s, bytes) ==
    IF s.region = 0 THEN hp
    ELSE IF s.region > Len(hp) THEN Append(hp, bytes)
    ELSE [hp EXCEPT ![s.region] = bytes]

\* the last holder of slice c lets go of it (c = 0: there is none)
Release(ss, c) == IF c = 0 THEN ss ELSE [ss EXCEPT ![c].holder = "released"]

\* AudioStream::on_data / VideoStream::on_data: the sink keeps what it is given,
\* in call order; src is the arrival index of the frame it was made from
on_data(s, src, pkt) == Append(s, [src |-> src, pkt |-> pkt])

----------------------------------------------------------------------------
(* What the peer sends *)

\* the 12-byte RTP header of the k-th packet: flags, type, sequence number,
\* timestamp, ssrc
RtpHeader(k) == <<128, 96, 0, k, 0, 0, 0, k, 0, 0, 0, 1>>

RtpClear(k, n) == [i \in 1..n |-> (16 * k + i) % 256]

NonceSuffix(k) == <<0, 0, 0, 0, 0, 0, 1, k>>

\* one buffered-audio frame: u16 BE total_len | RTP | tag(16) | nonce suffix(8).
\* t = <<L, auth>>: L is the length field; a frame too short for header and
\* trailer is its length field followed by what little it announces
BufferedFrame(t, k) ==
    LET L == t[1]
        n == L - 2 - TRAILER_LEN - AudioPacket_HEADER_LEN
    IN  IF n < 0
        THEN ToBE16(L) \o SubSeq(RtpHeader(k), 1, Min(SaturatingSub(L, 2), 12))
        ELSE LET nn == Zeros(4) \o NonceSuffix(k)
                 hd == RtpHeader(k)
                 ct == Unshift(RtpClear(k, n), SumSeq(nn))
                 ad == SubSeq(hd, 5, 4 + AAD_LEN)
                 good == BufferedTag(nn, ad, ct)
                 tg == IF t[2] THEN good ELSE [good EXCEPT ![1] = (@ + 1) % 256]
             IN  ToBE16(L) \o hd \o ct \o tg \o NonceSuffix(k)

BufferedTemplates ==
    {<<38, TRUE>>, <<40, TRUE>>, <<40, FALSE>>, <<0, TRUE>>, <<1, TRUE>>, <<37, TRUE>>}

\* one video frame: u32 LE payload_len | u16 LE kind | u16 LE reserved |
\* u64 LE timestamp | reserved(112) | payload.  t = <<kind_code, payload_len>>
VideoFrame(t, k) ==
    ToLE(t[2], 4) \o ToLE(t[1], 2) \o ToLE(k, 2) \o ToLE(1000 + k, 8)
        \o Zeros(UNKNOWN_BYTES) \o RtpClear(k, t[2])

VideoTemplates == {<<0, 2>>, <<1, 2>>, <<4096, 2>>, <<5, 2>>, <<0, 0>>}

\* one realtime-audio datagram of n bytes
Datagram(n, k) == SubSeq(RtpHeader(k) \o RtpClear(k, 2), 1, n)

DatagramLens == {0, 11, 12, 14}

Scripts(T) == UNION {[1..n -> T] : n \in 0..MaxFrames}

\* the pool sizes the session layer hands to the processors: one that the
\* longer packets do not fit, and one that is used up by the second or third
AudioBufSizes == {13, 26}
VideoBufSizes == {1, 3}

\* buffered audio: the frames above in every order, and every length field too
\* short for header and trailer after fewer than MaxFrames well-sized frames
BufferedScripts ==
    Scripts(BufferedTemplates)
        \cup {Append(ts, <<L, TRUE>>) :
                ts \in UNION {[1..n -> {t \in BufferedTemplates : t[1] >= 38}] :
                                n \in 0..(MaxFrames - 1)},
                L \in 0..(AudioPacket_HEADER_LEN + TRAILER_LEN + 1)}

\* the byte stream made of the frames of a script, in order
RECURSIVE BufferedWire(_, _)
BufferedWire(ts, k) ==
    IF k > Len(ts) THEN <<>> ELSE BufferedFrame(ts[k], k) \o BufferedWire(ts, k + 1)

RECURSIVE VideoWire(_, _)
VideoWire(ts, k) ==
    IF k > Len(ts) THEN <<>> ELSE VideoFrame(ts[k], k) \o VideoWire(ts, k + 1)

----------------------------------------------------------------------------
(* The processors: shared pieces *)

DtoIdle == dto_op = "none" /\ dto_in = <<>> /\ dto_out = <<>>

\* the state of a processor entered with its socket and an empty sink
Start(p, at, w, s, l, size) ==
    /\ proc = p /\ pc = at /\ result = "running"
    /\ hunk = BytesHunk_new(size) /\ arena = Zeros(size) /\ heap = <<>>
    /\ slices = <<>> /\ cur = 0
    /\ wire = w /\ pos = 0 /\ socket = s /\ listener = l /\ conn_left = 0
    /\ pkt_len = 0 /\ rtp = <<>> /\ tag = <<>> /\ nonce = <<>> /\ aad = <<>>
    /\ payload_len = 0 /\ kind = <<"none">> /\ unknown_field = 0
    /\ timestamp = 0 /\ payload = <<>> /\ cipher = 0
    /\ sink = <<>> /\ allocs = <<>> /\ cipher_calls = <<>>
    /\ frames = <<>> /\ io_failed = FALSE
    /\ DtoIdle

\* the first await of each loop iteration
FirstAwait(p) ==
    CASE p = "audio_buffered" -> "read_u16"
      [] p = "audio_realtime" -> "recv"
      [] p = "control" -> "recv"
      [] p = "video" -> "read_u32_le"
      [] OTHER -> "accept"

\* the awaits of each io::Result processor
Awaits(p) ==
    CASE p = "audio_buffered" -> {"read_u16", "read_rtp", "read_tag", "read_nonce"}
      [] p = "audio_realtime" -> {"recv"}
      [] p = "control" -> {"recv"}
      [] p = "video" -> {"read_u32_le", "read_u16_le", "read_unknown",
                         "read_u64_le", "read_skip", "read_payload"}
      [] OTHER -> {}

\* the error swallowed: the loop goes on with its next iteration
Propagate_Swallow(p, err) == [pc |-> FirstAwait(p), result |-> "running"]

\* `?` on an Err: the processor's future completes with the error
Propagate(p, err) == [pc |-> "done", result |-> err]

\* a single read in place of read_exact: it returns with the first byte, the
\* rest of the buffer as it was
Take_FirstByteOnly(n) == SubSeq(wire, pos + 1, pos + Min(n, 1)) \o Zeros(n - Min(n, 1))

\* TCP: n more bytes have arrived, and those bytes
Avail(n) == pos + n <= Len(wire)
Take(n) == SubSeq(wire, pos + 1, pos + n)

\* the local that held the slice after it was moved into the packet: the
\* slice is still named by it
Moved_Kept(c) == c

\* the local that held the slice after it was moved into the packet given to
\* on_data: it names no slice any more
Moved(c) == 0

\* allocate_buf(len) for the frame in hand; the slice is the processor's
AllocateBuf(len, src) ==
    LET pl == Place(hunk, slices, len)
    IN  /\ hunk' = Advance(hunk, pl)
        /\ slices' = Issue(slices, pl, src, "processor")
        /\ cur' = Len(slices) + 1
        /\ arena' = WriteArena(arena, pl, allocate_buf(len))
        /\ heap' = WriteHeap(heap, pl, allocate_buf(len))

\* the processor writes bytes through the slice it holds
WriteCur(bytes) ==
    /\ arena' = WriteArena(arena, slices[cur], bytes)
    /\ heap' = WriteHeap(heap, slices[cur], bytes)

\* the local holding the slice goes out of scope, the slice with it
DropCur ==
    /\ slices' = Release(slices, cur)
    /\ cur' = 0
    /\ UNCHANGED <<hunk, arena, heap>>

\* a read, recv or accept of an io::Result processor fails
IoError(p) ==
    /\ proc = p /\ pc \in Awaits(p)
    /\ io_failed' = TRUE
    /\ pc' = Propagate(p, "io_error").pc
    /\ result' = Propagate(p, "io_error").result
    /\ DropCur
    /\ UNCHANGED <<proc, wire, pos, socket, listener, conn_left, pkt_len, rtp, tag,
                   nonce, aad, payload_len, kind, unknown_field, timestamp, payload,
                   cipher, sink, allocs, cipher_calls, frames, dtoVars>>

----------------------------------------------------------------------------
(* audio_buffered_processor *)

InitBuffered ==
    \E ts \in BufferedScripts :
    \E audio_buf_size \in AudioBufSizes :
        Start("audio_buffered", "read_u16", BufferedWire(ts, 1), <<>>, <<>>,
              audio_buf_size)

\* the length fields beyond those of the frames above: a stream that begins
\* with one of them and the frame's first bytes
LongLengthFields == (38..64) \cup {255, 256, 257, 4096, 32767, 32768, 65534, 65535}

InitBufferedLengths ==
    \E L \in LongLengthFields :
    \E audio_buf_size \in AudioBufSizes :
        Start("audio_buffered", "read_u16",
              ToBE16(L) \o (IF L <= 64 THEN Tail(Tail(BufferedFrame(<<L, TRUE>>, 1)))
                                       ELSE RtpHeader(1)),
              <<>>, <<>>, audio_buf_size)

\* the size check with the trailer forgotten
Malformed_NoTrailer(len) == len < AudioPacket_HEADER_LEN

\* the size check made on the length field as read, the 2 bytes of the field
\* not taken off
Malformed_FieldCounted(len) == len + 2 < AudioPacket_HEADER_LEN + AudioPacket_TRAILER_LEN

\* the size check on the payload length
Malformed(len) == len < AudioPacket_HEADER_LEN + AudioPacket_TRAILER_LEN

\* read_u16, the size check, allocate_buf
BufReadLen ==
    /\ proc = "audio_buffered" /\ pc = "read_u16" /\ Avail(2)
    /\ pos' = pos + 2
    /\ frames' = Append(frames, pos)
    /\ LET len == SaturatingSub(U16BE(Take(2)), 2)
       IN  IF Malformed(len)
           THEN /\ pc' = Propagate(proc, "malformed").pc
                /\ result' = Propagate(proc, "malformed").result
                /\ UNCHANGED <<pkt_len, rtp, allocs, poolVars>>
           ELSE /\ pkt_len' = len - TRAILER_LEN
                /\ allocs' = Append(allocs, len - TRAILER_LEN)
                /\ rtp' = allocate_buf(len - TRAILER_LEN)
                /\ AllocateBuf(len - TRAILER_LEN, frame')
                /\ pc' = "read_rtp"
                /\ UNCHANGED result
    /\ UNCHANGED <<proc, wire, socket, listener, conn_left, tag, nonce, aad,
                   payload_len, kind, unknown_field, timestamp, payload, cipher,
                   sink, cipher_calls, io_failed, dtoVars>>

\* the aad taken from the start of the rtp buffer
Aad_AtStart(buf) == SubSeq(buf, 1, AAD_LEN)

\* rtp.as_ref()[4..][..AAD_LEN]
Aad(buf) == SubSeq(buf, 5, 4 + AAD_LEN)

\* read_exact(&mut rtp); tag, nonce zeroed; aad taken from the rtp buffer
BufReadRtp ==
    /\ proc = "audio_buffered" /\ pc = "read_rtp" /\ Avail(Len(rtp))
    /\ rtp' = Take(Len(rtp))
    /\ pos' = pos + Len(rtp)
    /\ tag' = Zeros(TAG_LEN)
    /\ nonce' = Zeros(NONCE_LEN)
    /\ WriteCur(rtp')
    /\ aad' = Aad(rtp')
    /\ pc' = "read_tag"
    /\ UNCHANGED <<proc, result, wire, socket, listener, conn_left, pkt_len,
                   payload_len, kind, unknown_field, timestamp, payload, cipher,
                   sink, allocs, cipher_calls, frames, io_failed, hunk, slices,
                   cur, dtoVars>>

\* read_exact(&mut tag)
BufReadTag ==
    /\ proc = "audio_buffered" /\ pc = "read_tag" /\ Avail(TAG_LEN)
    /\ tag' = Take(TAG_LEN)
    /\ pos' = pos + TAG_LEN
    /\ pc' = "read_nonce"
    /\ UNCHANGED <<proc, result, wire, socket, listener, conn_left, pkt_len, rtp,
                   nonce, aad, payload_len, kind, unknown_field, timestamp, payload,
                   cipher, sink, allocs, cipher_calls, frames, io_failed, poolVars, dtoVars>>

\* the outcome of open_in_place ignored: the packet is handed over regardless
BufferedDeliver_Always(s, src, opened, hdr) ==
    on_data(s, src, [rtp |-> hdr \o opened.buf])

\* a packet that opened is put in front of the packets already handed over
BufferedDeliver_Reordered(s, src, opened, hdr) ==
    IF opened.ok THEN <<[src |-> src, pkt |-> [rtp |-> hdr \o opened.buf]]>> \o s ELSE s

\* what the loop does with the outcome of open_in_place
BufferedDeliver(s, src, opened, hdr) ==
    IF opened.ok THEN on_data(s, src, [rtp |-> hdr \o opened.buf]) ELSE s

\* read_exact(&mut nonce[4..]), open_in_place, on_data on success
BufReadNonce ==
    /\ proc = "audio_buffered" /\ pc = "read_nonce" /\ Avail(NONCE_LEN - 4)
    /\ nonce' = SubSeq(nonce, 1, 4) \o Take(NONCE_LEN - 4)
    /\ pos' = pos + (NONCE_LEN - 4)
    /\ LET hdr == SubSeq(rtp, 1, AudioPacket_HEADER_LEN)
           body == SubSeq(rtp, AudioPacket_HEADER_LEN + 1, Len(rtp))
           opened == open_in_place(nonce', aad, tag, body)
       IN  /\ cipher_calls' = Append(cipher_calls,
                [src |-> frame, nonce |-> nonce', aad |-> aad, tag |-> tag, buf |-> body])
           /\ rtp' = hdr \o opened.buf
           /\ WriteCur(rtp')
           /\ sink' = BufferedDeliver(sink, frame, opened, hdr)
           /\ slices' = IF Len(sink') > Len(sink)
                         THEN [slices EXCEPT ![cur].holder = "sink"]
                         ELSE Release(slices, cur)
           /\ cur' = IF Len(sink') > Len(sink) THEN Moved(cur) ELSE 0
    /\ pc' = "read_u16"
    /\ UNCHANGED <<proc, result, wire, socket, listener, conn_left, pkt_len, tag,
                   aad, payload_len, kind, unknown_field, timestamp, payload,
                   cipher, allocs, frames, io_failed, hunk, dtoVars>>

----------------------------------------------------------------------------
(* audio_realtime_processor *)

InitRealtime ==
    \E ts \in Scripts(DatagramLens) :
    \E audio_buf_size \in AudioBufSizes :
        Start("audio_realtime", "recv", <<>>,
              [k \in 1..Len(ts) |-> Datagram(ts[k], k)], <<>>, audio_buf_size)

\* the length check off by one: a datagram of exactly header length is dropped
TooShort_Inclusive(len) == len <= AudioPacket_HEADER_LEN

\* the length check on a received datagram
TooShort(len) == len < AudioPacket_HEADER_LEN

\* socket.recv(&mut pkt_buf) and the rest of the iteration
RtRecv ==
    /\ proc = "audio_realtime" /\ pc = "recv" /\ pos < Len(socket)
    /\ pos' = pos + 1
    /\ frames' = Append(frames, pos)
    /\ LET len == Min(Len(socket[pos + 1]), PKT_BUF_SIZE)
           pkt_buf == SubSeq(socket[pos + 1], 1, len)
           hdr == SubSeq(pkt_buf, 1, AudioPacket_HEADER_LEN)
           body == SubSeq(pkt_buf, AudioPacket_HEADER_LEN + 1, len)
       IN  /\ pkt_len' = len
           /\ IF TooShort(len)
              THEN UNCHANGED <<rtp, allocs, cipher_calls, sink, poolVars>>
              ELSE /\ allocs' = Append(allocs, len)
                   /\ cipher_calls' = Append(cipher_calls, [src |-> frame', buf |-> body])
                   /\ rtp' = hdr \o realtime_decrypt(body)
                   /\ sink' = on_data(sink, frame', [rtp |-> rtp'])
                   /\ LET pl == Place(hunk, slices, len)
                      IN  /\ hunk' = Advance(hunk, pl)
                          /\ slices' = Issue(slices, pl, frame', "sink")
                          /\ arena' = WriteArena(arena, pl, rtp')
                          /\ heap' = WriteHeap(heap, pl, rtp')
                          /\ cur' = Moved(Len(slices) + 1)
    /\ UNCHANGED <<proc, pc, result, wire, socket, listener, conn_left, tag, nonce,
                   aad, payload_len, kind, unknown_field, timestamp, payload,
                   cipher, io_failed, dtoVars>>

----------------------------------------------------------------------------
(* control_processor *)

InitControl ==
    \E ts \in Scripts(DatagramLens) :
        Start("control", "recv", <<>>, [k \in 1..Len(ts) |-> Datagram(ts[k], k)],
              <<>>, 0)

\* socket.recv(&mut buf): the datagram is discarded
CtlRecv ==
    /\ proc = "control" /\ pc = "recv" /\ pos < Len(socket)
    /\ pos' = pos + 1
    /\ frames' = Append(frames, pos)
    /\ UNCHANGED <<proc, pc, result, wire, socket, listener, conn_left, pkt_len, rtp,
                   tag, nonce, aad, payload_len, kind, unknown_field, timestamp,
                   payload, cipher, sink, allocs, cipher_calls, io_failed, poolVars, dtoVars>>

----------------------------------------------------------------------------
(* video_processor *)

InitVideo ==
    \E ts \in Scripts(VideoTemplates) :
    \E video_buf_size \in VideoBufSizes :
        Start("video", "read_u32_le", VideoWire(ts, 1), <<>>, <<>>, video_buf_size)

\* the match on the kind code with the arm for 4096 left out
PacketKindOf_Only0(code) ==
    CASE code = 1 -> <<"AvcC">>
      [] code = 0 -> <<"Payload">>
      [] OTHER -> <<"Other", code>>

\* the match on the kind code
PacketKindOf(code) ==
    CASE code = 1 -> <<"AvcC">>
      [] code \in {0, 4096} -> <<"Payload">>
      [] OTHER -> <<"Other", code>>

\* every kind of packet decrypted
NeedsDecrypt_All(k) == TRUE

\* codec configuration decrypted as well
NeedsDecrypt_AvcCToo(k) == k \in {<<"Payload">>, <<"AvcC">>}

\* matches!(kind, PacketKind::Payload)
NeedsDecrypt(k) == k = <<"Payload">>

\* read_u32_le: payload_len
VidReadLen ==
    /\ proc = "video" /\ pc = "read_u32_le" /\ Avail(4)
    /\ payload_len' = UIntLE(Take(4))
    /\ pos' = pos + 4
    /\ frames' = Append(frames, pos)
    /\ pc' = "read_u16_le"
    /\ UNCHANGED <<proc, result, wire, socket, listener, conn_left, pkt_len, rtp, tag,
                   nonce, aad, kind, unknown_field, timestamp, payload, cipher,
                   sink, allocs, cipher_calls, io_failed, poolVars, dtoVars>>

\* read_u16_le: kind
VidReadKind ==
    /\ proc = "video" /\ pc = "read_u16_le" /\ Avail(2)
    /\ kind' = PacketKindOf(UIntLE(Take(2)))
    /\ pos' = pos + 2
    /\ pc' = "read_unknown"
    /\ UNCHANGED <<proc, result, wire, socket, listener, conn_left, pkt_len, rtp, tag,
                   nonce, aad, payload_len, unknown_field, timestamp, payload,
                   cipher, sink, allocs, cipher_calls, frames, io_failed, poolVars, dtoVars>>

\* read_u16_le: unknown_field
VidReadUnknown ==
    /\ proc = "video" /\ pc = "read_unknown" /\ Avail(2)
    /\ unknown_field' = UIntLE(Take(2))
    /\ pos' = pos + 2
    /\ pc' = "read_u64_le"
    /\ UNCHANGED <<proc, result, wire, socket, listener, conn_left, pkt_len, rtp, tag,
                   nonce, aad, payload_len, kind, timestamp, payload, cipher,
                   sink, allocs, cipher_calls, frames, io_failed, poolVars, dtoVars>>

\* read_u64_le: timestamp
VidReadTimestamp ==
    /\ proc = "video" /\ pc = "read_u64_le" /\ Avail(8)
    /\ timestamp' = UIntLE(Take(8))
    /\ pos' = pos + 8
    /\ pc' = "read_skip"
    /\ UNCHANGED <<proc, result, wire, socket, listener, conn_left, pkt_len, rtp, tag,
                   nonce, aad, payload_len, kind, unknown_field, payload, cipher,
                   sink, allocs, cipher_calls, frames, io_failed, poolVars, dtoVars>>

\* read_exact(&mut [0; UNKNOWN_BYTES]), then allocate_buf(payload_len)
VidSkip ==
    /\ proc = "video" /\ pc = "read_skip" /\ Avail(UNKNOWN_BYTES)
    /\ pos' = pos + UNKNOWN_BYTES
    /\ allocs' = Append(allocs, payload_len)
    /\ payload' = allocate_buf(payload_len)
    /\ AllocateBuf(payload_len, frame)
    /\ pc' = "read_payload"
    /\ UNCHANGED <<proc, result, wire, socket, listener, conn_left, pkt_len, rtp, tag,
                   nonce, aad, payload_len, kind, unknown_field, timestamp, cipher,
                   sink, cipher_calls, frames, io_failed, dtoVars>>

\* read_exact(&mut pkt.payload), decrypt if Payload, on_data
VidReadPayload ==
    /\ proc = "video" /\ pc = "read_payload" /\ Avail(Len(payload))
    /\ pos' = pos + Len(payload)
    /\ LET read == Take(Len(payload))
           dec == video_decrypt(cipher, read)
       IN  /\ IF NeedsDecrypt(kind)
              THEN /\ cipher' = dec.state
                   /\ cipher_calls' = Append(cipher_calls,
                        [src |-> frame, state |-> cipher, buf |-> read])
                   /\ payload' = dec.buf
              ELSE /\ payload' = read
                   /\ UNCHANGED <<cipher, cipher_calls>>
           /\ WriteCur(payload')
           /\ sink' = on_data(sink, frame,
                [kind |-> kind, timestamp |-> timestamp, payload |-> payload'])
           /\ slices' = [slices EXCEPT ![cur].holder = "sink"]
           /\ cur' = Moved(cur)
    /\ pc' = "read_u32_le"
    /\ UNCHANGED <<proc, result, wire, socket, listener, conn_left, pkt_len, rtp, tag,
                   nonce, aad, payload_len, kind, unknown_field, timestamp,
                   allocs, frames, io_failed, hunk, dtoVars>>

----------------------------------------------------------------------------
(* event_processor *)

ConnSizes == {0, 1, 2}

InitEvent ==
    \E ts \in Scripts(ConnSizes) : Start("event", "accept", <<>>, <<>>, ts, 0)

\* listener.accept() returns a connection
EvAccept ==
    /\ proc = "event" /\ pc = "accept" /\ pos < Len(listener)
    /\ conn_left' = listener[pos + 1]
    /\ pos' = pos + 1
    /\ frames' = Append(frames, pos)
    /\ pc' = "read"
    /\ UNCHANGED <<proc, result, wire, socket, listener, pkt_len, rtp, tag, nonce, aad,
                   payload_len, kind, unknown_field, timestamp, payload, cipher,
                   sink, allocs, cipher_calls, io_failed, poolVars, dtoVars>>

\* listener.accept() fails: the outer `while let Ok` ends and the function returns ()
EvAcceptErr ==
    /\ proc = "event" /\ pc = "accept"
    /\ io_failed' = TRUE
    /\ pc' = "done"
    /\ result' = "returned"
    /\ UNCHANGED <<proc, wire, pos, socket, listener, conn_left, pkt_len, rtp, tag,
                   nonce, aad, payload_len, kind, unknown_field, timestamp, payload,
                   cipher, sink, allocs, cipher_calls, frames, poolVars, dtoVars>>

\* stream.read(&mut buf) returns Ok(len) with len >= 1
EvRead ==
    /\ proc = "event" /\ pc = "read"
    /\ \E len \in 1..Min(conn_left, BUF_SIZE) : conn_left' = conn_left - len
    /\ UNCHANGED <<proc, pc, result, wire, pos, socket, listener, pkt_len, rtp, tag,
                   nonce, aad, payload_len, kind, unknown_field, timestamp, payload,
                   cipher, sink, allocs, cipher_calls, frames, io_failed, poolVars, dtoVars>>

\* stream.read(&mut buf) returns Ok(0): the inner `while let Ok(len @ 1..)` ends
EvReadEof ==
    /\ proc = "event" /\ pc = "read" /\ conn_left = 0
    /\ pc' = "accept"
    /\ UNCHANGED <<proc, result, wire, pos, socket, listener, conn_left, pkt_len, rtp,
                   tag, nonce, aad, payload_len, kind, unknown_field, timestamp,
                   payload, cipher, sink, allocs, cipher_calls, frames, io_failed,
                   poolVars, poolVars, dtoVars>>

\* stream.read(&mut buf) returns Err: the inner `while let Ok(len @ 1..)` ends
EvReadErr ==
    /\ proc = "event" /\ pc = "read"
    /\ io_failed' = TRUE
    /\ pc' = "accept"
    /\ UNCHANGED <<proc, result, wire, pos, socket, listener, conn_left, pkt_len, rtp,
                   tag, nonce, aad, payload_len, kind, unknown_field, timestamp,
                   payload, cipher, sink, allocs, cipher_calls, frames, poolVars, dtoVars>>

----------------------------------------------------------------------------
(* One run of one processor *)

Init ==
    \/ InitEvent \/ InitControl \/ InitRealtime \/ InitBuffered \/ InitVideo
    \/ InitBufferedLengths

Next ==
    \/ EvAccept \/ EvAcceptErr \/ EvRead \/ EvReadEof \/ EvReadErr
    \/ CtlRecv
    \/ RtRecv
    \/ BufReadLen \/ BufReadRtp \/ BufReadTag \/ BufReadNonce
    \/ VidReadLen \/ VidReadKind \/ VidReadUnknown \/ VidReadTimestamp
    \/ VidSkip \/ VidReadPayload
    \/ \E p \in {"control", "audio_realtime", "audio_buffered", "video"} : IoError(p)

Spec == Init /\ [][Next]_vars

----------------------------------------------------------------------------
(* The processor with its surroundings: the sink lets go of packets it was    *)
(* given, and the session layer aborts the processor (TEARDOWN)               *)

\* the sink drops a packet: the slice it carried has no holder left
SinkRelease ==
    /\ \E i \in 1..Len(slices) :
          /\ slices[i].holder = "sink"
          /\ slices' = Release(slices, i)
    /\ UNCHANGED <<proc, pc, result, wire, pos, socket, listener, conn_left, pkt_len,
                   rtp, tag, nonce, aad, payload_len, kind, unknown_field, timestamp,
                   payload, cipher, sink, allocs, cipher_calls, frames, io_failed,
                   hunk, arena, heap, cur, dtoVars>>

\* the processor's task is aborted: the future is dropped at the await it is
\* suspended at, its locals with it
Abort ==
    /\ proc # "none" /\ pc # "done"
    /\ pc' = "done"
    /\ result' = "aborted"
    /\ DropCur
    /\ UNCHANGED <<proc, wire, pos, socket, listener, conn_left, pkt_len, rtp, tag,
                   nonce, aad, payload_len, kind, unknown_field, timestamp, payload,
                   cipher, sink, allocs, cipher_calls, frames, io_failed, dtoVars>>

\* the frames sent to a processor that runs with its surroundings
SessionBufferedTemplates == {<<38, TRUE>>, <<40, TRUE>>, <<40, FALSE>>, <<0, TRUE>>}
SessionVideoTemplates == {<<0, 2>>, <<1, 2>>, <<0, 0>>}
SessionDatagramLens == {11, 12, 14}

InitRealtimeSession ==
    \E ts \in Scripts(SessionDatagramLens) :
    \E audio_buf_size \in AudioBufSizes :
        Start("audio_realtime", "recv", <<>>,
              [k \in 1..Len(ts) |-> Datagram(ts[k], k)], <<>>, audio_buf_size)

InitBufferedSession ==
    \E ts \in Scripts(SessionBufferedTemplates) :
    \E audio_buf_size \in AudioBufSizes :
        Start("audio_buffered", "read_u16", BufferedWire(ts, 1), <<>>, <<>>,
              audio_buf_size)

InitVideoSession ==
    \E ts \in Scripts(SessionVideoTemplates) :
    \E video_buf_size \in VideoBufSizes :
        Start("video", "read_u32_le", VideoWire(ts, 1), <<>>, <<>>, video_buf_size)

InitSession ==
    \/ InitEvent \/ InitControl
    \/ InitRealtimeSession \/ InitBufferedSession \/ InitVideoSession

NextSession == Next \/ SinkRelease \/ Abort

SpecSession == InitSession /\ [][NextSession]_vars

----------------------------------------------------------------------------
(* Negotiation records (rtsp/dto.rs): property-list values *)

\* bound on the length of a `streams` list
MaxStreams == 2

StreamId_AUDIO_REALTIME == 96
StreamId_AUDIO_BUFFERED == 103
StreamId_VIDEO == 110

\* plist::Value
Integer(n) == [t |-> "int", v |-> n]
Real(n) == [t |-> "real", v |-> n]
Str(x) == [t |-> "str", v |-> x]
Data(x) == [t |-> "data", v |-> x]
Array(xs) == [t |-> "array", v |-> xs]
Dict(f) == [t |-> "dict", v |-> f]

\* Result: Ok(variant, val) and Err(kind, field, value)
Ok(variant, val) == [ok |-> TRUE, variant |-> variant, val |-> val]
Err(knd, field, value) == [ok |-> FALSE, kind |-> knd, field |-> field, value |-> value]

\* plist::Value::as_unsigned_integer: Some only for an integer that is not
\* negative (<<n>> is Some(n), <<>> is None)
as_unsigned_integer(v) == IF v.t = "int" /\ v.v >= 0 THEN <<v.v>> ELSE <<>>

\* whether serde reads the plist value v as a field of the Rust type ty; the
\* upper ends of u32, u64 and i64 lie beyond the integers of the model
HasType(ty, v) ==
    CASE ty = "u8" -> v.t = "int" /\ v.v \in 0..255
      [] ty = "u16" -> v.t = "int" /\ v.v \in 0..65535
      [] ty \in {"u32", "u64"} -> v.t = "int" /\ v.v >= 0
      [] ty = "i64" -> v.t = "int"
      [] ty = "String" -> v.t = "str"
      [] ty = "Bytes" -> v.t \in {"data", "str"}
      [] OTHER -> FALSE

\* #[derive(Deserialize)] on a struct.  schema: <<wire key, type, optional>> per
\* field; keys the struct does not name are ignored.  An Option field decodes
\* to <<x>> or <<>>.
DecodeStruct(variant, schema, d) ==
    LET bad == {i \in 1..Len(schema) :
                    schema[i][1] \in DOMAIN d /\ ~HasType(schema[i][2], d[schema[i][1]])}
        missing == {i \in 1..Len(schema) :
                    ~schema[i][3] /\ schema[i][1] \notin DOMAIN d}
        first(S) == CHOOSE i \in S : \A j \in S : i <= j
    IN  IF bad # {} THEN Err("invalid_type", schema[first(bad)][1], 0)
        ELSE IF missing # {} THEN Err("missing_field", schema[first(missing)][1], 0)
        ELSE Ok(variant,
                [k \in {schema[i][1] : i \in 1..Len(schema)} |->
                    LET i == CHOOSE i \in 1..Len(schema) : schema[i][1] = k
                    IN  IF schema[i][3]
                        THEN IF k \in DOMAIN d THEN <<d[k].v>> ELSE <<>>
                        ELSE d[k].v])

AudioRealtimeRequest ==
    << <<"ct", "u8", FALSE>>, <<"audioFormat", "u32", FALSE>>,
       <<"spf", "u32", FALSE>>, <<"sr", "u32", FALSE>>,
       <<"latencyMin", "u32", FALSE>>, <<"latencyMax", "u32", FALSE>>,
       <<"controlPort", "u16", FALSE>> >>

AudioBufferedRequest ==
    << <<"ct", "u8", FALSE>>, <<"audioFormat", "u32", FALSE>>,
       <<"audioFormatIndex", "u8", TRUE>>, <<"spf", "u32", FALSE>>,
       <<"shk", "Bytes", FALSE>>, <<"clientID", "String", TRUE>> >>

VideoRequest ==
    << <<"streamConnectionID", "i64", FALSE>>, <<"latencyMs", "u32", FALSE>> >>

\* the three arms of the match swapped about: 103 decodes as Video, 110 as
\* AudioBuffered
StreamRequestMatch_Swapped(type_num, value) ==
    CASE type_num = 96 -> DecodeStruct("AudioRealtime", AudioRealtimeRequest, value.v)
      [] type_num = 103 -> DecodeStruct("Video", VideoRequest, value.v)
      [] type_num = 110 -> DecodeStruct("AudioBuffered", AudioBufferedRequest, value.v)
      [] OTHER -> Err("unknown_type", "type", type_num)

\* match type_num { 96 => .., 103 => .., 110 => .., other => Err(unknown type) }
StreamRequestMatch(type_num, value) ==
    CASE type_num = 96 -> DecodeStruct("AudioRealtime", AudioRealtimeRequest, value.v)
      [] type_num = 103 -> DecodeStruct("AudioBuffered", AudioBufferedRequest, value.v)
      [] type_num = 110 -> DecodeStruct("Video", VideoRequest, value.v)
      [] OTHER -> Err("unknown_type", "type", type_num)

\* impl Deserialize for StreamRequest
StreamRequest_deserialize(value) ==
    IF value.t # "dict" THEN Err("not_a_dictionary", "", 0)
    ELSE IF "type" \notin DOMAIN value.v THEN Err("missing_field", "type", 0)
    ELSE IF as_unsigned_integer(value.v["type"]) = <<>>
         THEN Err("type_must_be_an_integer", "type", 0)
    ELSE StreamRequestMatch(as_unsigned_integer(value.v["type"])[1], value)

\* #[serde(tag = "timingProtocol")] enum TimingProtocol, flattened into SenderInfo
TimingProtocol_deserialize(d) ==
    IF "timingProtocol" \notin DOMAIN d THEN Err("missing_field", "timingProtocol", 0)
    ELSE IF d["timingProtocol"].t # "str" THEN Err("invalid_type", "timingProtocol", 0)
    ELSE IF d["timingProtocol"].v = "PTP" THEN Ok("Ptp", <<>>)
    ELSE IF d["timingProtocol"].v = "NTP"
         THEN DecodeStruct("Ntp", << <<"timingPort", "u16", FALSE>> >>, d)
    ELSE Err("unknown_variant", "timingProtocol", 0)

SenderInfo ==
    << <<"name", "String", FALSE>>, <<"model", "String", FALSE>>,
       <<"deviceID", "String", FALSE>>, <<"macAddress", "String", FALSE>>,
       <<"osName", "String", TRUE>>, <<"osVersion", "String", TRUE>>,
       <<"osBuildVersion", "String", TRUE>>,
       <<"ekey", "Bytes", FALSE>>, <<"eiv", "Bytes", FALSE>> >>

\* #[derive(Deserialize)] struct SenderInfo
SenderInfo_deserialize(value) ==
    IF value.t # "dict" THEN Err("invalid_type", "", 0)
    ELSE LET own == DecodeStruct("SenderInfo", SenderInfo, value.v)
             timing == TimingProtocol_deserialize(value.v)
         IN  IF ~own.ok THEN own
             ELSE IF ~timing.ok THEN timing
             ELSE Ok("SenderInfo", [info |-> own.val, timing_proto |-> timing])

\* Vec<StreamRequest>: every element decodes, or the first error is the list's
RECURSIVE StreamRequests_deserialize(_, _)
StreamRequests_deserialize(xs, k) ==
    IF k > Len(xs) THEN Ok("Vec", <<>>)
    ELSE LET head == StreamRequest_deserialize(xs[k])
             rest == StreamRequests_deserialize(xs, k + 1)
         IN  IF ~head.ok THEN head
             ELSE IF ~rest.ok THEN rest
             ELSE Ok("Vec", <<head>> \o rest.val)

\* the variant SetupRequest::Streams { #[serde(rename = "streams")] requests }
Streams_deserialize(value) ==
    IF value.t # "dict" THEN Err("invalid_type", "", 0)
    ELSE IF "streams" \notin DOMAIN value.v THEN Err("missing_field", "streams", 0)
    ELSE IF value.v["streams"].t # "array" THEN Err("invalid_type", "streams", 0)
    ELSE LET list == StreamRequests_deserialize(value.v["streams"].v, 1)
         IN  IF list.ok THEN Ok("Streams", list.val) ELSE list

\* #[serde(untagged)] enum SetupRequest: the variants are tried in the order
\* they are declared, and the first that decodes is the result
SetupRequest_deserialize(value) ==
    IF SenderInfo_deserialize(value).ok THEN SenderInfo_deserialize(value)
    ELSE IF Streams_deserialize(value).ok THEN Streams_deserialize(value)
    ELSE Err("no_variant_matched", "", 0)

\* #[derive(Deserialize)] struct TeardownRequest
TeardownRequest_deserialize(value) ==
    IF value.t # "dict" THEN Err("invalid_type", "", 0)
    ELSE DecodeStruct("TeardownRequest",
            << <<"streamID", "u64", TRUE>>, <<"type", "u32", FALSE>> >>, value.v)

\* Vec<TeardownRequest>
RECURSIVE TeardownRequests_deserialize(_, _)
TeardownRequests_deserialize(xs, k) ==
    IF k > Len(xs) THEN Ok("Vec", <<>>)
    ELSE LET head == TeardownRequest_deserialize(xs[k])
             rest == TeardownRequests_deserialize(xs, k + 1)
         IN  IF ~head.ok THEN head
             ELSE IF ~rest.ok THEN rest
             ELSE Ok("Vec", <<head>> \o rest.val)

\* #[derive(Deserialize)] struct Teardown { streams: Option<Vec<TeardownRequest>> }
Teardown_deserialize(value) ==
    IF value.t # "dict" THEN Err("invalid_type", "", 0)
    ELSE IF "streams" \notin DOMAIN value.v THEN Ok("Teardown", <<>>)
    ELSE IF value.v["streams"].t # "array" THEN Err("invalid_type", "streams", 0)
    ELSE LET list == TeardownRequests_deserialize(value.v["streams"].v, 1)
         IN  IF list.ok THEN Ok("Teardown", <<list.val>>) ELSE list

\* the Video arm filled in like the AudioRealtime arm: a control port of 0
AdjTagged_VideoControlPort(self) ==
    CASE self.variant = "AudioRealtime" ->
            [type_ |-> 96, id |-> self.id, local_data_port |-> self.local_data_port,
             local_control_port |-> <<self.local_control_port>>,
             audio_buffer_size |-> <<>>]
      [] self.variant = "AudioBuffered" ->
            [type_ |-> 103, id |-> self.id, local_data_port |-> self.local_data_port,
             local_control_port |-> <<>>,
             audio_buffer_size |-> <<self.audio_buffer_size>>]
      [] OTHER ->
            [type_ |-> 110, id |-> self.id, local_data_port |-> self.local_data_port,
             local_control_port |-> <<0>>,
             audio_buffer_size |-> <<>>]

\* impl Serialize for StreamResponse: the AdjTagged built by each arm of the
\* match (<<x>> is Some(x), <<>> is None)
AdjTagged(self) ==
    CASE self.variant = "AudioRealtime" ->
            [type_ |-> 96, id |-> self.id, local_data_port |-> self.local_data_port,
             local_control_port |-> <<self.local_control_port>>,
             audio_buffer_size |-> <<>>]
      [] self.variant = "AudioBuffered" ->
            [type_ |-> 103, id |-> self.id, local_data_port |-> self.local_data_port,
             local_control_port |-> <<>>,
             audio_buffer_size |-> <<self.audio_buffer_size>>]
      [] OTHER ->
            [type_ |-> 110, id |-> self.id, local_data_port |-> self.local_data_port,
             local_control_port |-> <<>>,
             audio_buffer_size |-> <<>>]

\* #[derive(Serialize)] struct AdjTagged: one serialize_field per field, in
\* declaration order, an Option field passed as the Option it is
AdjTagged_serialize(a) ==
    << [key |-> "type", val |-> <<a.type_ % 256>>],
       [key |-> "streamID", val |-> <<a.id>>],
       [key |-> "dataPort", val |-> <<a.local_data_port>>],
       [key |-> "controlPort", val |-> a.local_control_port],
       [key |-> "audioBufferSize", val |-> a.audio_buffer_size] >>

\* the property-list serializer's struct: a field given None writes nothing,
\* neither key nor value
plist_serialize_struct(fields) ==
    Dict([k \in {fields[i].key : i \in {j \in 1..Len(fields) : fields[j].val # <<>>}} |->
            Integer(fields[CHOOSE i \in 1..Len(fields) : fields[i].key = k].val[1])])

StreamResponse_serialize(self) == plist_serialize_struct(AdjTagged_serialize(AdjTagged(self)))

----------------------------------------------------------------------------
(* Negotiation records: the payloads decoded and the responses encoded *)

Drop(d, k) == [x \in DOMAIN d \ {k} |-> d[x]]
Spoil(d, k) == [d EXCEPT ![k] = IF @.t = "int" THEN Str("x") ELSE Integer(1)]
Variants(d) == {d} \cup {Drop(d, k) : k \in DOMAIN d} \cup {Spoil(d, k) : k \in DOMAIN d}

RealtimeDict ==
    ("ct" :> Integer(2)) @@ ("audioFormat" :> Integer(262144)) @@ ("spf" :> Integer(352))
    @@ ("sr" :> Integer(44100)) @@ ("latencyMin" :> Integer(11025))
    @@ ("latencyMax" :> Integer(88200)) @@ ("controlPort" :> Integer(6001))

BufferedDict ==
    ("ct" :> Integer(4)) @@ ("audioFormat" :> Integer(4194304))
    @@ ("audioFormatIndex" :> Integer(22)) @@ ("spf" :> Integer(1024))
    @@ ("shk" :> Data("k")) @@ ("clientID" :> Str("c"))

VideoDict == ("streamConnectionID" :> Integer(-7)) @@ ("latencyMs" :> Integer(90))

TypeValues ==
    {Integer(-1), Integer(0), Integer(96), Integer(103), Integer(110), Integer(999),
     Real(96), Str("96")}

StreamDicts ==
    Variants(RealtimeDict) \cup Variants(BufferedDict) \cup Variants(VideoDict)
        \cup {[RealtimeDict EXCEPT !["ct"] = Integer(256)]}

StreamInputs ==
    {Dict(d) : d \in StreamDicts}
        \cup {Dict(("type" :> tv) @@ d) : tv \in TypeValues, d \in StreamDicts}
        \cup {Str("x")}

StreamResponses ==
    {[variant |-> "AudioRealtime", id |-> i, local_data_port |-> 7000,
      local_control_port |-> c] : i \in {0, 5}, c \in {0, 7001}}
    \cup {[variant |-> "AudioBuffered", id |-> i, local_data_port |-> 7000,
           audio_buffer_size |-> b] : i \in {0, 5}, b \in {0, 8388608}}
    \cup {[variant |-> "Video", id |-> i, local_data_port |-> p] :
            i \in {0, 5}, p \in {0, 7000}}

PtpDict ==
    ("name" :> Str("n")) @@ ("model" :> Str("m")) @@ ("deviceID" :> Str("d"))
    @@ ("macAddress" :> Str("a")) @@ ("osName" :> Str("o"))
    @@ ("ekey" :> Data("k")) @@ ("eiv" :> Data("i")) @@ ("timingProtocol" :> Str("PTP"))

NtpDict == ("timingProtocol" :> Str("NTP")) @@ ("timingPort" :> Integer(7010)) @@ PtpDict

NoDict == [x \in {} |-> Integer(0)]

SenderDicts ==
    {NoDict, PtpDict, NtpDict, Drop(NtpDict, "timingPort"), Drop(PtpDict, "name"),
     Spoil(PtpDict, "ekey"), ("timingProtocol" :> Str("XYZ")) @@ PtpDict}

StreamPool ==
    {Dict(("type" :> Integer(110)) @@ VideoDict),
     Dict(("type" :> Integer(96)) @@ RealtimeDict),
     Dict(("type" :> Integer(999)) @@ VideoDict),
     Dict(VideoDict)}

Lists(T) == UNION {[1..n -> T] : n \in 0..MaxStreams}

SetupInputs ==
    {Dict(d) : d \in SenderDicts}
        \cup {Dict(("streams" :> Array(l)) @@ d) : l \in Lists(StreamPool), d \in SenderDicts}
        \cup {Dict(("streams" :> Integer(1)) @@ d) : d \in SenderDicts}
        \cup {Str("x")}

TeardownPool ==
    {Dict("type" :> tv) : tv \in {Integer(-1), Integer(0), Integer(96), Integer(110),
                                  Integer(999), Real(96)}}
        \cup {Dict(("streamID" :> Integer(1)) @@ ("type" :> tv)) :
                tv \in {Integer(103), Integer(999)}}
        \cup {Dict("streamID" :> Integer(1))}

TeardownInputs ==
    {Dict(NoDict), Dict("streams" :> Integer(1))}
        \cup {Dict("streams" :> Array(l)) : l \in Lists(TeardownPool)}

----------------------------------------------------------------------------
(* One decode or encode call *)

InitDto == Start("none", "done", <<>>, <<>>, <<>>, 0)

DecodeStreamRequest ==
    /\ dto_op = "none"
    /\ \E value \in StreamInputs :
          /\ dto_op' = "decode_stream"
          /\ dto_in' = value
          /\ dto_out' = StreamRequest_deserialize(value)
    /\ UNCHANGED procVars

EncodeStreamResponse ==
    /\ dto_op = "none"
    /\ \E self \in StreamResponses :
          /\ dto_op' = "encode_response"
          /\ dto_in' = self
          /\ dto_out' = StreamResponse_serialize(self)
    /\ UNCHANGED procVars

DecodeSetupRequest ==
    /\ dto_op = "none"
    /\ \E value \in SetupInputs :
          /\ dto_op' = "decode_setup"
          /\ dto_in' = value
          /\ dto_out' = SetupRequest_deserialize(value)
    /\ UNCHANGED procVars

DecodeTeardown ==
    /\ dto_op = "none"
    /\ \E value \in TeardownInputs :
          /\ dto_op' = "decode_teardown"
          /\ dto_in' = value
          /\ dto_out' = Teardown_deserialize(value)
    /\ UNCHANGED procVars

NextDto == DecodeStreamRequest \/ EncodeStreamResponse \/ DecodeSetupRequest \/ DecodeTeardown

SpecDto == InitDto /\ [][NextDto]_vars

----------------------------------------------------------------------------
(* Claims about the processors *)

\* number of packets the sink was given for the frame of arrival index k
DeliveredFor(k) == Cardinality({j \in 1..Len(sink) : sink[j].src = k})

\* the cipher invocations made for the frame of arrival index k
CallsFor(k) == {j \in 1..Len(cipher_calls) : cipher_calls[j].src = k}

\* buffered audio: the 16-bit length field of the frame in hand, as on the wire
LengthField == U16BE(SubSeq(wire, frames[frame] + 1, frames[frame] + 2))

\* C1: in audio_buffered_processor every length field L with
\* L - 2 < header_len + 24 ends the processor with the malformed-stream error:
\* no further byte of that frame is read, nothing is delivered for it, and no
\* step follows.
C1_MalformedLengthIsFatal ==
    (proc = "audio_buffered" /\ frame > 0
        /\ LengthField - 2 < AudioPacket_HEADER_LEN + 24)
    => /\ pc = "done" /\ result = "malformed"
       /\ pos = frames[frame] + 2
       /\ DeliveredFor(frame) = 0
       /\ ~ENABLED Next

C1_Witness ==
    /\ proc = "audio_buffered" /\ result = "malformed"
    /\ LengthField = 37
    /\ Len(sink) = 1
    /\ pos < Len(wire)

\* the tag of a cipher invocation is the one the cipher accepts
Authentic(c) == c.tag = BufferedTag(c.nonce, c.aad, c.buf)

\* C2: in audio_buffered_processor every frame read completely (the cipher was
\* called for it) is delivered exactly once if its tag authenticates and not at
\* all if it does not; in both cases the processor is back at the read of the
\* next length field, still running, and only a failed read ends it.
C2_AuthFailureDropsOnePacket ==
    proc = "audio_buffered" =>
        /\ \A j \in 1..Len(cipher_calls) :
              /\ DeliveredFor(cipher_calls[j].src)
                    = IF Authentic(cipher_calls[j]) THEN 1 ELSE 0
              /\ CallsFor(cipher_calls[j].src) = {j}
        /\ (CallsFor(frame) # {}) =>
              \/ pc = "read_u16" /\ result = "running"
              \/ pc = "done" /\ result = "io_error" /\ io_failed

C2_Witness ==
    /\ proc = "audio_buffered" /\ result = "running" /\ pc = "read_u16"
    /\ Len(cipher_calls) = 3
    /\ ~Authentic(cipher_calls[1]) /\ ~Authentic(cipher_calls[2])
    /\ Authentic(cipher_calls[3])
    /\ Len(sink) = 1 /\ sink[1].src = 3

\* the packet e is the one made from the frame of its arrival index: its
\* unencrypted header fields are that frame's
FromItsFrame(e) ==
    CASE proc = "audio_buffered" ->
            SubSeq(e.pkt.rtp, 1, AudioPacket_HEADER_LEN)
                = SubSeq(wire, frames'[e.src] + 3, frames'[e.src] + 2 + AudioPacket_HEADER_LEN)
      [] proc = "audio_realtime" ->
            SubSeq(e.pkt.rtp, 1, AudioPacket_HEADER_LEN)
                = SubSeq(socket[e.src], 1, AudioPacket_HEADER_LEN)
      [] OTHER ->
            e.pkt.timestamp = UIntLE(SubSeq(wire, frames'[e.src] + 9, frames'[e.src] + 16))

C3_Step ==
    proc \in {"audio_realtime", "audio_buffered", "video"} =>
        /\ \/ sink' = sink
           \/ /\ Len(sink') = Len(sink) + 1
              /\ SubSeq(sink', 1, Len(sink)) = sink
              /\ sink'[Len(sink')].src = frame'
              /\ FromItsFrame(sink'[Len(sink')])
              /\ \A j \in 1..Len(sink) : sink[j].src < frame'
        /\ frames' # frames => pc = FirstAwait(proc) /\ frame' = frame + 1

\* C3: within the realtime-audio, buffered-audio and video processors every
\* step that changes the sink appends exactly one packet, the one made from the
\* frame in hand, which arrived after every packet delivered before; and a new
\* frame is begun only at the top of the loop, so the sink's packets are a
\* subsequence of the arrivals with no batching and no look-ahead.
C3_DeliveryInArrivalOrder == [][C3_Step]_vars

C3_Witness ==
    /\ proc = "audio_buffered" /\ frame = 3
    /\ Len(sink) = 2 /\ sink[1].src = 1 /\ sink[2].src = 3

\* video: kind code and payload bytes, as on the wire, of the frame begun at `at`
WireKindCode(at) == UIntLE(SubSeq(wire, at + 5, at + 6))
WirePayload(at) ==
    SubSeq(wire, at + 16 + UNKNOWN_BYTES + 1,
           at + 16 + UNKNOWN_BYTES + UIntLE(SubSeq(wire, at + 1, at + 4)))

\* C4: video_processor delivers a packet of kind code 1 or of a code mapped
\* to Other with the payload bytes of the wire, the cipher not called for it;
\* a packet of kind code 0 or 4096 is delivered with the bytes the cipher's
\* decrypt made of its whole wire payload.
C4_OnlyPayloadKindDecrypted ==
    proc = "video" =>
        \A j \in 1..Len(sink) :
            LET e == sink[j]
                at == frames[e.src]
            IN  IF WireKindCode(at) \in {0, 4096}
                THEN \E c \in CallsFor(e.src) :
                        /\ cipher_calls[c].buf = WirePayload(at)
                        /\ e.pkt.payload
                             = video_decrypt(cipher_calls[c].state, WirePayload(at)).buf
                ELSE /\ e.pkt.payload = WirePayload(at)
                     /\ CallsFor(e.src) = {}

C4_Witness ==
    /\ proc = "video" /\ Len(sink) = 3
    /\ sink[1].pkt.kind = <<"AvcC">> /\ Len(sink[1].pkt.payload) = 2
    /\ sink[2].pkt.kind = <<"Other", 5>> /\ Len(sink[2].pkt.payload) = 2
    /\ sink[3].pkt.kind = <<"Payload">> /\ WireKindCode(frames[3]) = 4096
    /\ sink[3].pkt.payload # WirePayload(frames[3])

C6_ShortDatagramDropped ==
    proc = "audio_realtime" =>
        /\ \A k \in 1..pos :
              IF Len(socket[k]) < AudioPacket_HEADER_LEN
              THEN DeliveredFor(k) = 0 /\ CallsFor(k) = {}
              ELSE DeliveredFor(k) = 1 /\ Cardinality(CallsFor(k)) = 1
        /\ Len(allocs) = Len(sink)
        /\ \A j \in 1..Len(sink) : allocs[j] = Len(socket[sink[j].src])
        /\ ~io_failed => pc = "recv" /\ result = "running"

C6_Witness ==
    /\ proc = "audio_realtime" /\ pos = 3 /\ result = "running"
    /\ Len(socket[1]) = 11 /\ Len(socket[2]) = 12 /\ Len(socket[3]) = 14
    /\ Len(sink) = 2 /\ sink[1].src = 2 /\ sink[2].src = 3

----------------------------------------------------------------------------
(* Claims about the negotiation records *)

StreamIds == {StreamId_AUDIO_REALTIME, StreamId_AUDIO_BUFFERED, StreamId_VIDEO}

VariantOf(ty) ==
    CASE ty = StreamId_AUDIO_REALTIME -> "AudioRealtime"
      [] ty = StreamId_AUDIO_BUFFERED -> "AudioBuffered"
      [] OTHER -> "Video"

KeysOf(variant) ==
    CASE variant = "AudioRealtime" -> DOMAIN RealtimeDict
      [] variant = "AudioBuffered" -> DOMAIN BufferedDict
      [] OTHER -> DOMAIN VideoDict

\* a StreamRequest payload with a recognised type decodes to the variant of
\* that type, or fails on one of that variant's fields
SelectsVariantOfType ==
    LET ty == dto_in.v["type"].v
    IN  IF dto_out.ok
        THEN /\ dto_out.variant = VariantOf(ty)
             /\ \A k \in KeysOf(VariantOf(ty)) \cap DOMAIN dto_in.v :
                    dto_out.val[k] = IF k \in {"audioFormatIndex", "clientID"}
                                     THEN <<dto_in.v[k].v>> ELSE dto_in.v[k].v
        ELSE /\ dto_out.kind \in {"missing_field", "invalid_type"}
             /\ dto_out.field \in KeysOf(VariantOf(ty))

\* C7 as claimed: an absent type is a missing-field error, a non-integer type
\* an invalid-type error, and every integer other than 96, 103 and 110, the
\* negative ones included, an unknown-stream-type error naming it.
C7_EveryOtherIntegerIsUnknownType ==
    (dto_op = "decode_stream" /\ dto_in.t = "dict") =>
        IF "type" \notin DOMAIN dto_in.v
        THEN ~dto_out.ok /\ dto_out.kind = "missing_field" /\ dto_out.field = "type"
        ELSE IF dto_in.v["type"].t # "int"
        THEN ~dto_out.ok /\ dto_out.kind = "type_must_be_an_integer"
        ELSE IF dto_in.v["type"].v \notin StreamIds
        THEN /\ ~dto_out.ok /\ dto_out.kind = "unknown_type"
             /\ dto_out.value = dto_in.v["type"].v
        ELSE SelectsVariantOfType

\* C7 as amended: an absent type is a missing-field error; a type that is no
\* unsigned integer (a non-integer, or a negative integer) is the invalid-type
\* error; every unsigned integer other than 96, 103 and 110 is an
\* unknown-stream-type error naming it; 96, 103 and 110 select AudioRealtime,
\* AudioBuffered and Video; nothing else decodes to a variant.
C7_DispatchOnUnsignedType ==
    (dto_op = "decode_stream" /\ dto_in.t = "dict") =>
        IF "type" \notin DOMAIN dto_in.v
        THEN ~dto_out.ok /\ dto_out.kind = "missing_field" /\ dto_out.field = "type"
        ELSE IF dto_in.v["type"].t # "int" \/ dto_in.v["type"].v < 0
        THEN ~dto_out.ok /\ dto_out.kind = "type_must_be_an_integer"
        ELSE IF dto_in.v["type"].v \notin StreamIds
        THEN /\ ~dto_out.ok /\ dto_out.kind = "unknown_type"
             /\ dto_out.value = dto_in.v["type"].v
        ELSE SelectsVariantOfType

C7_Witness ==
    /\ dto_op = "decode_stream" /\ dto_in.t = "dict"
    /\ "type" \in DOMAIN dto_in.v
    /\ dto_in.v["type"] = Integer(999)
    /\ ~dto_out.ok /\ dto_out.kind = "unknown_type" /\ dto_out.value = 999

\* C8: the encoded StreamResponse is a record with type, streamID and dataPort
\* for every variant, type being 96 / 103 / 110; controlPort is a key of it
\* only for AudioRealtime and audioBufferSize only for AudioBuffered, each with
\* the response's value; it has no other key.
C8_KindSpecificKeysOnly ==
    dto_op = "encode_response" =>
        LET d == dto_out.v
        IN  /\ dto_out.t = "dict"
            /\ {"type", "streamID", "dataPort"} \subseteq DOMAIN d
            /\ DOMAIN d \subseteq {"type", "streamID", "dataPort", "controlPort",
                                   "audioBufferSize"}
            /\ d["type"] = Integer(CASE dto_in.variant = "AudioRealtime" -> 96
                                     [] dto_in.variant = "AudioBuffered" -> 103
                                     [] OTHER -> 110)
            /\ d["streamID"] = Integer(dto_in.id)
            /\ d["dataPort"] = Integer(dto_in.local_data_port)
            /\ ("controlPort" \in DOMAIN d) = (dto_in.variant = "AudioRealtime")
            /\ ("audioBufferSize" \in DOMAIN d) = (dto_in.variant = "AudioBuffered")
            /\ dto_in.variant = "AudioRealtime" =>
                    d["controlPort"] = Integer(dto_in.local_control_port)
            /\ dto_in.variant = "AudioBuffered" =>
                    d["audioBufferSize"] = Integer(dto_in.audio_buffer_size)

C8_Witness ==
    /\ dto_op = "encode_response"
    /\ dto_in = [variant |-> "AudioRealtime", id |-> 5, local_data_port |-> 7000,
                 local_control_port |-> 7001]
    /\ DOMAIN dto_out.v = {"type", "streamID", "dataPort", "controlPort"}

\* C9: a SetupRequest payload with a `streams` key never decodes as anything
\* but the Streams variant, also when it carries every SenderInfo field, and
\* a payload without one never as anything but SenderInfo.
C9_StreamsKeySelectsVariant ==
    (dto_op = "decode_setup" /\ dto_in.t = "dict" /\ dto_out.ok) =>
        dto_out.variant = IF "streams" \in DOMAIN dto_in.v THEN "Streams" ELSE "SenderInfo"

\* C10: every decoded StreamRequest and every decoded TeardownRequest carries a
\* stream type of 96, 103 or 110; any other type is a decode error.
C10_OnlyKnownStreamTypesDecode ==
    /\ (dto_op = "decode_stream" /\ dto_out.ok) => dto_in.v["type"].v \in StreamIds
    /\ (dto_op = "decode_teardown" /\ dto_out.ok) =>
            \A i \in 1..Len(dto_out.val) : \A j \in 1..Len(dto_out.val[i]) :
                dto_out.val[i][j].val["type"] \in StreamIds

----------------------------------------------------------------------------
(* Claims about the buffer pool *)

\* the slice issued for the frame of arrival index k
SliceOf(k) == slices[CHOOSE i \in 1..Len(slices) : slices[i].src = k]

\* the bytes of the packet the sink was given
PacketBytes(e) == IF proc = "video" THEN e.pkt.payload ELSE e.pkt.rtp

\* the slices some holder still references
Referenced == {i \in 1..Len(slices) : slices[i].holder # "released"}

\* total length allocated after the slice of index i was issued
AllocatedSince(i) == SumSeq(SubSeq(allocs, i + 1, Len(allocs)))

\* C11: whatever the processor allocates while the sink holds packets, no two
\* slices that are still referenced share a byte of storage, every slice of
\* the backing storage lies inside it, and the bytes seen through a slice the
\* sink holds are the bytes of the packet as it was delivered, also when more
\* than the pool's capacity was allocated since.
C11_HeldSlicesDisjointAndUnchanged ==
    /\ \A i \in Referenced : \A j \in Referenced :
          (i # j /\ slices[i].region = slices[j].region)
              => /\ slices[i].region = 0
                 /\ ~Overlaps(slices[i], slices[j])
    /\ \A i \in 1..Len(slices) :
          slices[i].region = 0 => slices[i].off + slices[i].len <= hunk.capacity
    /\ \A j \in 1..Len(sink) :
          SliceOf(sink[j].src).holder = "sink"
              => ReadSlice(arena, heap, SliceOf(sink[j].src)) = PacketBytes(sink[j])

C11_Witness ==
    /\ proc = "audio_buffered" /\ Len(sink) = 3 /\ Len(slices) = 3
    /\ slices[1].holder = "sink" /\ slices[1].region = 0
    /\ slices[2].holder = "released"
    /\ slices[3].holder = "sink" /\ slices[3].region # 0
    /\ AllocatedSince(1) > hunk.capacity /\ hunk.capacity > slices[3].len

\* the slices a step of the processor may write through: the one its local
\* holds before the step, or the one the step itself is issued
Writable == IF cur # 0 THEN {cur} ELSE (Len(slices) + 1)..Len(slices')

\* the bytes of storage a step changes
ChangedArena == {i \in 1..Len(arena) : arena'[i] # arena[i]}
ChangedHeap == {k \in 1..Len(heap') : k > Len(heap) \/ heap'[k] # heap[k]}

C12_Step ==
    /\ \A i \in ChangedArena :
          \E w \in Writable :
              /\ slices'[w].region = 0
              /\ i > slices'[w].off /\ i <= slices'[w].off + slices'[w].len
    /\ \A k \in ChangedHeap : \E w \in Writable : slices'[w].region = k
    /\ \A i \in 1..Len(slices) :
          slices[i].holder = "sink"
              => /\ i \notin Writable
                 /\ ReadSlice(arena', heap', slices[i]) = ReadSlice(arena, heap, slices[i])
    /\ cur' # 0 => slices'[cur'].holder = "processor"
    /\ \A i \in 1..Len(slices') : slices'[i].holder = "processor" => i = cur'

\* C12: every byte of storage a step changes lies in the slice the processor
\* holds in its local before the step or is issued during it; a slice that was
\* handed to the sink with on_data is never the processor's to write, and its
\* bytes are not changed by any step; the processor's local names no slice
\* after on_data, so no slice is the processor's and the sink's at once.
C12_SliceAccessIsExclusive == [][C12_Step]_vars

C12_Witness ==
    /\ proc = "audio_buffered" /\ pc = "read_tag" /\ cur = 2
    /\ slices[1].holder = "sink" /\ slices[1].region = 0
    /\ slices[2].holder = "processor" /\ slices[2].region = 0
    /\ ReadSlice(arena, heap, slices[2]) = rtp /\ rtp # Zeros(Len(rtp))
    /\ ReadSlice(arena, heap, slices[1]) = sink[1].pkt.rtp

----------------------------------------------------------------------------
(* Claims about framing and the cipher calls *)

\* buffered audio: where the frame of arrival index k begins and ends on the wire
FrameStart(k) == frames[k]
FrameEnd(k) == frames[k] + U16BE(SubSeq(wire, frames[k] + 1, frames[k] + 2))

\* C13: each cipher call of audio_buffered_processor has for nonce 4 zero
\* bytes followed by the last 8 bytes of its frame, for tag the 16 bytes of
\* the frame before those 8, for aad bytes 4..12 of the frame's RTP region as
\* on the wire, and for buffer the RTP region after the 12-byte header; as
\* every frame carries its own nonce, tag and header, nothing of an earlier
\* frame is in the call of a later one.
C13_CipherArgumentsComeFromTheFrame ==
    proc = "audio_buffered" =>
        \A j \in 1..Len(cipher_calls) :
            LET c == cipher_calls[j]
                at == FrameStart(c.src)
                end == FrameEnd(c.src)
            IN  /\ Len(c.nonce) = 12
                /\ c.nonce = <<0, 0, 0, 0>> \o SubSeq(wire, end - 7, end)
                /\ c.tag = SubSeq(wire, end - 23, end - 8)
                /\ c.aad = SubSeq(wire, at + 2 + 5, at + 2 + 12)
                /\ c.buf = SubSeq(wire, at + 2 + 12 + 1, end - 24)

C13_Witness ==
    /\ proc = "audio_buffered" /\ Len(cipher_calls) = 3
    /\ cipher_calls[1].nonce # cipher_calls[2].nonce
    /\ cipher_calls[2].nonce # cipher_calls[3].nonce
    /\ cipher_calls[1].aad # cipher_calls[2].aad
    /\ cipher_calls[2].tag # cipher_calls[3].tag
    /\ ~Authentic(cipher_calls[2]) /\ Authentic(cipher_calls[3])
    /\ Len(cipher_calls[3].buf) = 2

\* buffered audio: the frame of arrival index k passed the size check
Accepted(k) == \E i \in 1..Len(slices) : slices[i].src = k

\* C14: in audio_buffered_processor every frame that passed the size check
\* has an RTP buffer of L - 26 bytes; once the cipher was called for it,
\* whether or not the tag authenticated, exactly L bytes of the stream are
\* consumed; and every length field is read where the frame before it ended.
C14_AcceptedFrameConsumesItsLength ==
    proc = "audio_buffered" =>
        /\ \A i \in 1..Len(slices) :
              allocs[i] = FrameEnd(slices[i].src) - FrameStart(slices[i].src) - 26
        /\ \A j \in 1..Len(cipher_calls) :
              /\ Accepted(cipher_calls[j].src)
              /\ IF cipher_calls[j].src = frame
                 THEN pos = FrameEnd(frame)
                 ELSE FrameStart(cipher_calls[j].src + 1) = FrameEnd(cipher_calls[j].src)
        /\ \A k \in 2..frame : FrameStart(k) = FrameEnd(k - 1) /\ Accepted(k - 1)
        /\ frame > 0 => FrameStart(1) = 0

C14_Witness ==
    /\ proc = "audio_buffered" /\ frame = 3 /\ Len(cipher_calls) = 3
    /\ Authentic(cipher_calls[1]) /\ ~Authentic(cipher_calls[2])
    /\ FrameStart(2) = 40 /\ FrameStart(3) = 80 /\ FrameEnd(3) = 118
    /\ pos = 118 /\ pc = "read_u16"

\* video: the payload_len and timestamp fields, as on the wire, of the frame
\* begun at `at`
WirePayloadLen(at) == UIntLE(SubSeq(wire, at + 1, at + 4))
WireTimestamp(at) == UIntLE(SubSeq(wire, at + 9, at + 16))

\* video: the frame of arrival index k was read to its end and the processor
\* is on to the next
ReadCompletely(k) == k < frame \/ (k = frame /\ pc = "read_u32_le")

\* video: a read of the frame of arrival index k is still to complete
ReadInProgress(k) ==
    k = frame /\ (pos < frames[k] + 128 + WirePayloadLen(frames[k]) \/ pc = "read_payload")

\* C15: for every video frame read to its end, video_processor has consumed
\* 128 + payload_len bytes and delivered one packet: its kind AvcC for code 1,
\* Payload for 0 and 4096, Other(code) for any other code, its timestamp the
\* header's 64-bit little-endian value, its payload of payload_len bytes, zero
\* included; nothing is delivered for a frame while a read of it is still to
\* complete; and the processor completes for no other reason than a failed read.
C15_VideoFrameYieldsOnePacket ==
    proc = "video" =>
        /\ \A k \in 1..frame :
              LET at == frames[k]
                  code == WireKindCode(at)
              IN  IF ReadCompletely(k)
                  THEN /\ (IF k < frame THEN frames[k + 1] ELSE pos)
                            = at + 128 + WirePayloadLen(at)
                       /\ DeliveredFor(k) = 1
                       /\ \E j \in 1..Len(sink) :
                            /\ sink[j].src = k
                            /\ sink[j].pkt.kind =
                                  (IF code = 1 THEN <<"AvcC">>
                                   ELSE IF code = 0 \/ code = 4096 THEN <<"Payload">>
                                   ELSE <<"Other", code>>)
                            /\ sink[j].pkt.timestamp = WireTimestamp(at)
                            /\ Len(sink[j].pkt.payload) = WirePayloadLen(at)
                  ELSE ReadInProgress(k) => DeliveredFor(k) = 0
        /\ \A k \in 1..frame : DeliveredFor(k) <= 1
        /\ Len(sink) <= frame
        /\ result \in {"running", "io_error"}
        /\ result = "io_error" => io_failed

C15_Witness ==
    /\ proc = "video" /\ frame = 3 /\ pc = "read_u32_le" /\ Len(sink) = 3
    /\ sink[1].pkt.kind = <<"Payload">> /\ sink[1].pkt.payload = <<>>
    /\ sink[2].pkt.kind = <<"Other", 5>> /\ sink[2].pkt.timestamp = 1002
    /\ sink[3].pkt.kind = <<"Payload">> /\ WireKindCode(frames[3]) = 4096
    /\ pos = 3 * 128 + 4

\* video: the state of the cipher after the first k frames, were it applied to
\* the wire payloads of the frames of kind code 0 or 4096 among them, in
\* order, and to nothing else
RECURSIVE CipherAfter(_)
CipherAfter(k) ==
    IF k = 0 THEN 0
    ELSE IF WireKindCode(frames[k]) \in {0, 4096}
    THEN video_decrypt(CipherAfter(k - 1), WirePayload(frames[k])).state
    ELSE CipherAfter(k - 1)

\* C16: video_processor calls the cipher once for every delivered packet of
\* kind code 0 or 4096 and for no other, the calls in arrival order; each call
\* finds, and the processor is left with, the cipher state that the Payload
\* frames before it alone account for, so AvcC and Other frames leave the
\* state as it was.
C16_CipherSeesOnlyPayloadFrames ==
    proc = "video" =>
        /\ \A j \in 1..Len(sink) :
              Cardinality(CallsFor(sink[j].src))
                  = IF WireKindCode(frames[sink[j].src]) \in {0, 4096} THEN 1 ELSE 0
        /\ \A j \in 1..Len(cipher_calls) :
              /\ DeliveredFor(cipher_calls[j].src) = 1
              /\ cipher_calls[j].state = CipherAfter(cipher_calls[j].src - 1)
              /\ j > 1 => cipher_calls[j - 1].src < cipher_calls[j].src
        /\ cipher = CipherAfter(Len(sink))

C16_Witness ==
    /\ proc = "video" /\ Len(sink) = 3 /\ Len(cipher_calls) = 2
    /\ sink[1].pkt.kind = <<"Payload">> /\ sink[2].pkt.kind = <<"AvcC">>
    /\ sink[3].pkt.kind = <<"Payload">>
    /\ cipher_calls[1].src = 1 /\ cipher_calls[2].src = 3
    /\ cipher_calls[2].state = 2 /\ cipher = 4

----------------------------------------------------------------------------
(* Claims about cancellation *)

\* where the frame of arrival index k ends on the wire
EndOfFrame(k) ==
    IF proc = "video" THEN frames[k] + 128 + WirePayloadLen(frames[k]) ELSE FrameEnd(k)

\* the packet that the whole frame of arrival index k makes, read from the
\* wire and decrypted as its kind requires
WholePacket(k) ==
    IF proc = "video"
    THEN LET at == frames[k]
         IN  [kind |-> PacketKindOf(WireKindCode(at)),
              timestamp |-> WireTimestamp(at),
              payload |-> IF WireKindCode(at) \in {0, 4096}
                          THEN video_decrypt(CipherAfter(k - 1), WirePayload(at)).buf
                          ELSE WirePayload(at)]
    ELSE LET at == FrameStart(k)
             end == FrameEnd(k)
             body == SubSeq(wire, at + 15, end - 24)
         IN  [rtp |-> SubSeq(wire, at + 3, at + 14)
                        \o open_in_place(<<0, 0, 0, 0>> \o SubSeq(wire, end - 7, end),
                                          SubSeq(wire, at + 7, at + 14),
                                          SubSeq(wire, end - 23, end - 8), body).buf]

\* C17: with the processor aborted at any of its awaits, every packet the
\* sink has was made from a frame read to its last byte and is that frame
\* decrypted as its kind requires; a frame with bytes still to be read at the
\* abort has no packet; and in no state, aborted ones included, has the cipher
\* been applied to a frame whose packet is yet to be delivered.
C17_AbortOnlyBetweenPackets ==
    /\ proc \in {"audio_buffered", "video"} =>
        /\ \A j \in 1..Len(sink) :
              /\ sink[j].src \in 1..frame
              /\ pos >= EndOfFrame(sink[j].src)
              /\ sink[j].pkt = WholePacket(sink[j].src)
        /\ (frame > 0 /\ pos < EndOfFrame(frame)) => DeliveredFor(frame) = 0
        /\ \A j \in 1..Len(cipher_calls) :
              DeliveredFor(cipher_calls[j].src)
                  = IF proc = "video" \/ Authentic(cipher_calls[j]) THEN 1 ELSE 0
    /\ proc = "audio_realtime" =>
        /\ \A j \in 1..Len(sink) :
              /\ sink[j].src \in 1..pos
              /\ sink[j].pkt.rtp
                    = SubSeq(socket[sink[j].src], 1, 12)
                        \o realtime_decrypt(SubSeq(socket[sink[j].src], 13,
                                                    Len(socket[sink[j].src])))
        /\ \A j \in 1..Len(cipher_calls) : DeliveredFor(cipher_calls[j].src) = 1
    /\ result = "aborted" => pc = "done" /\ cur = 0 /\ ~ENABLED Next

C17_Witness ==
    /\ proc = "video" /\ result = "aborted" /\ frame = 2
    /\ Len(sink) = 1 /\ sink[1].pkt.kind = <<"Payload">>
    /\ Len(sink[1].pkt.payload) = 2
    /\ WireKindCode(frames[2]) = 0
    /\ pos = EndOfFrame(2) - 2
    /\ Len(cipher_calls) = 1 /\ Len(slices) = 2 /\ slices[2].holder = "released"

----------------------------------------------------------------------------
(* Claims about lengths *)

\* C18: in audio_buffered_processor, for the length fields 0 to 65535, no
\* length computed is negative; a buffer is allocated only for a frame whose
\* field is at least 38, its length L - 2 - 24 at least the 12 bytes of the
\* header, so that bytes 4..12 (the aad) and the region from byte 12 on (the
\* cipher's buffer) lie inside it: the aad has its 8 bytes and the cipher's
\* buffer the L - 38 bytes left.
C18_BufferedLengthsStayInRange ==
    proc = "audio_buffered" =>
        /\ pkt_len >= 0
        /\ \A i \in 1..Len(slices) :
              LET L == FrameEnd(slices[i].src) - FrameStart(slices[i].src)
              IN  /\ L \in 38..65535
                  /\ allocs[i] = L - 2 - 24
                  /\ allocs[i] >= AudioPacket_HEADER_LEN
                  /\ 4 + AAD_LEN <= allocs[i]
                  /\ slices[i].len = allocs[i]
        /\ Len(rtp) = pkt_len
        /\ pc \in {"read_tag", "read_nonce"} => Len(aad) = AAD_LEN
        /\ \A j \in 1..Len(cipher_calls) :
              /\ Len(cipher_calls[j].aad) = AAD_LEN
              /\ Len(cipher_calls[j].buf)
                    = FrameEnd(cipher_calls[j].src) - FrameStart(cipher_calls[j].src) - 38

C18_Witness ==
    /\ proc = "audio_buffered" /\ frame = 1 /\ LengthField = 38
    /\ allocs = <<12>> /\ Len(cipher_calls) = 1
    /\ cipher_calls[1].buf = <<>> /\ Len(cipher_calls[1].aad) = 8
    /\ Len(sink) = 1 /\ Len(sink[1].pkt.rtp) = 12

\* C19: every length a processor passes to allocate_buf (buffered audio:
\* L - 26; realtime audio: the datagram's length; video: payload_len) is at
\* most the capacity its pool was created with.
C19_AllocationWithinCapacity ==
    proc \in {"audio_buffered", "audio_realtime", "video"} =>
        \A i \in 1..Len(allocs) : allocs[i] <= hunk.capacity

====
